---- MODULE Spec2Model ----
(***************************************************************************)
(* Triple buffer (src/src/lib.rs): three slots, one atomic back-buffer     *)
(* descriptor, a producer handle (Input) and a consumer handle (Output).   *)
(*                                                                         *)
(* The producer thread runs the writer loop of the concurrent tests:       *)
(* write(1), write(2), ... Each write is the slot-pointer computation of   *)
(* input_buffer(), a store of the payload that takes two steps (the        *)
(* payload has two words, as the race cell of the tests has), and the      *)
(* publish exchange.                                                       *)
(* The consumer thread calls read() again and again: the relaxed load of   *)
(* the dirty bit, the exchange when the bit was set, the slot-pointer      *)
(* computation of output_buffer(), and a load of the payload through the   *)
(* returned reference that takes two steps.                                *)
(* An atomic exchange and the assignment of the handle's private index     *)
(* that follows it are one step: the index is a field only its own thread  *)
(* reads.                                                                  *)
(***************************************************************************)
EXTENDS Integers, Sequences, FiniteSets, TLC

\* Number of writes the producer loop issues.
MaxWrites == 3

BACK_INDEX_MASK == 3
BACK_DIRTY_BIT == 4

\* Initial value of the three slots (TripleBuffer::new(UsizeRaceCell::new(0))).
InitialValue == 0

BufferIndexes == 0..2

RECURSIVE BitAnd(_, _)
BitAnd(a, b) ==
    IF a = 0 \/ b = 0 THEN 0
    ELSE (a % 2) * (b % 2) + 2 * BitAnd(a \div 2, b \div 2)

RECURSIVE BitOr(_, _)
BitOr(a, b) ==
    IF a = 0 THEN b
    ELSE IF b = 0 THEN a
    ELSE (IF (a % 2) + (b % 2) > 0 THEN 1 ELSE 0) + 2 * BitOr(a \div 2, b \div 2)

\* A payload is two words; a whole value v is <<v, v>> (UsizeRaceCell).
RaceCell(v) == <<v, v>>

VARIABLES
    buffers,        \* SharedState.buffers: slot -> payload
    back_info,      \* SharedState.back_info: the atomic descriptor word
    input_idx,      \* Input.input_idx
    output_idx,     \* Output.output_idx
    ppc,            \* producer position: "idle", "store0", "store1", "publish"
    value,          \* writer loop variable: the value of the current/last write
    input_ptr,      \* slot the pointer computed by input_buffer() refers to
    pubs,           \* one record per completed publish, in order
    cpc,            \* consumer position: "idle", "swap", "ref", "rd0", "rd1", "panic"
    updated,        \* local of Output::update
    output_ptr,     \* slot the reference returned by read() refers to
    w0,             \* first word loaded through the reference
    new_value,      \* the payload the last completed read delivered
    last_value,     \* reader loop variable: the value the last read delivered
    prev_value,     \* the value last_value held when the last read was checked
    had_read,       \* a read has been called
    exch_since_pub, \* the consumer exchanged since the last publish
    call,           \* what the current/last read call saw when it was called
    upds,           \* one record per exchange Output::update performed, in order
    between,        \* a whole read() call has run since the last publish
    gapless,        \* such a read ran between every two writes so far
    query,          \* the last diagnostic query: who called, what it loaded and returned
    heap,           \* sequential tests: the shared states allocated (Arc::new)
    bufA,           \* sequential tests: an unsplit TripleBuffer
    bufB,           \* sequential tests: a second unsplit TripleBuffer, or NoBuf
    raw,            \* memory-order runs: the build has the raw feature (cfg!(raw))
    mem,            \* memory-order runs: slot -> word -> the stores made to it, in order
    desc,           \* memory-order runs: the words stored to back_info, in order
    pt,             \* memory-order runs: the producer thread
    ct              \* memory-order runs: the consumer thread

\* The variables of the two-thread runs and those of the sequential tests.
convars == <<buffers, back_info, input_idx, output_idx, ppc, value, input_ptr, pubs,
             cpc, updated, output_ptr, w0, new_value, last_value, prev_value,
             had_read, exch_since_pub, call, upds, between, gapless, query>>
seqvars == <<heap, bufA, bufB>>
memvars == <<raw, mem, desc, pt, ct>>

vars == <<buffers, back_info, input_idx, output_idx, ppc, value, input_ptr, pubs,
          cpc, updated, output_ptr, w0, new_value, last_value, prev_value,
          had_read, exch_since_pub, call, upds, between, gapless, query,
          heap, bufA, bufB, raw, mem, desc, pt, ct>>

shared == <<buffers, back_info>>
producer == <<input_idx, ppc, value, input_ptr, pubs>>
consumer == <<output_idx, cpc, updated, output_ptr, w0, new_value, last_value,
              prev_value, had_read>>
history == <<upds, between, gapless>>

\* No diagnostic query has been called.
NoQuery == [by |-> "none", info |-> 0, ret |-> FALSE]

----------------------------------------------------------------------------
\* TripleBuffer::new_impl and split
Init ==
    /\ buffers = [i \in BufferIndexes |-> RaceCell(InitialValue)]
    /\ back_info = 0
    /\ input_idx = 1
    /\ output_idx = 2
    /\ ppc = "idle"
    /\ value = 0
    /\ input_ptr = 1
    /\ pubs = <<>>
    /\ cpc = "idle"
    /\ updated = FALSE
    /\ output_ptr = 2
    /\ w0 = InitialValue
    /\ new_value = RaceCell(InitialValue)
    /\ last_value = InitialValue
    /\ prev_value = InitialValue
    /\ had_read = FALSE
    /\ exch_since_pub = FALSE
    /\ call = [published |-> 0, producer_idle |-> TRUE, quiet |-> TRUE,
               nopub |-> TRUE, prev_quiet |-> FALSE, prev_nopub |-> FALSE,
               snap |-> <<0, 1, 2, [i \in BufferIndexes |-> RaceCell(InitialValue)]>>]
    /\ upds = <<>>
    /\ between = FALSE
    /\ gapless = TRUE
    /\ query = NoQuery

\* Number of publishes that have completed.
Published == Len(pubs)

Dirty(info) == BitAnd(info, BACK_DIRTY_BIT) # 0

\* A producer step taken while a read call is open (or since it was called).
ProducerStepSeen(isPublish) ==
    call' = [call EXCEPT !.quiet = FALSE,
                         !.nopub = IF isPublish THEN FALSE ELSE @]

----------------------------------------------------------------------------
\* Producer: Input

\* Input::input_buffer, called by write for the next value of the writer loop
InputBuffer ==
    /\ ppc = "idle"
    /\ value < MaxWrites
    /\ value' = value + 1
    /\ input_ptr' = input_idx
    /\ ppc' = "store0"
    /\ ProducerStepSeen(FALSE)
    /\ gapless' = (gapless /\ (value = 0 \/ between))
    /\ UNCHANGED <<seqvars, memvars, shared, input_idx, pubs, consumer, exch_since_pub,
                   upds, between, query>>

\* *self.input_buffer() = value, first word
Store0 ==
    /\ ppc = "store0"
    /\ buffers' = [buffers EXCEPT ![input_ptr][1] = value]
    /\ ppc' = "store1"
    /\ ProducerStepSeen(FALSE)
    /\ UNCHANGED <<seqvars, memvars, back_info, input_idx, value, input_ptr, pubs, consumer,
                   exch_since_pub, history, query>>

\* *self.input_buffer() = value, second word
Store1 ==
    /\ ppc = "store1"
    /\ buffers' = [buffers EXCEPT ![input_ptr][2] = value]
    /\ ppc' = "publish"
    /\ ProducerStepSeen(FALSE)
    /\ UNCHANGED <<seqvars, memvars, back_info, input_idx, value, input_ptr, pubs, consumer,
                   exch_since_pub, history, query>>

\* Faulty variant: publish swaps the bare index in, the dirty bit is not set.
PublishBackInfo_NoDirty(idx) == idx

\* Faulty variant: publish ORs the index mask in instead of the dirty bit.
PublishBackInfo_Mask(idx) == BitOr(idx, BACK_INDEX_MASK)

\* The word Input::publish swaps into the descriptor
PublishBackInfo(idx) == BitOr(idx, BACK_DIRTY_BIT)

\* Faulty variant: publish keeps its input index instead of taking the old back index.
PublishInputIdx_Keep(former_back_info) == input_idx

\* The input index Input::publish takes from the descriptor it replaced
PublishInputIdx(former_back_info) == BitAnd(former_back_info, BACK_INDEX_MASK)

\* Faulty variant: the overwrite flag is tested with the wrong sense.
PublishResult_Inverted(former_back_info) ==
    BitAnd(former_back_info, BACK_DIRTY_BIT) = 0

\* Faulty variant: the overwrite flag is computed from the index bits.
PublishResult_IndexBits(former_back_info) ==
    BitAnd(former_back_info, BACK_INDEX_MASK) # 0

\* The flag Input::publish returns
PublishResult(former_back_info) == BitAnd(former_back_info, BACK_DIRTY_BIT) # 0

\* Faulty variant: publish waits until the consumer has taken the last value.
Publish_Wait ==
    /\ ppc = "publish"
    /\ ~Dirty(back_info)
    /\ back_info' = PublishBackInfo(input_idx)
    /\ input_idx' = PublishInputIdx(back_info)
    /\ pubs' = Append(pubs, [ret |-> PublishResult(back_info),
                             dirty |-> Dirty(back_info),
                             exch |-> exch_since_pub,
                             slot |-> input_idx,
                             reclaimed |-> PublishInputIdx(back_info),
                             content |-> buffers[PublishInputIdx(back_info)],
                             nupds |-> Len(upds)])
    /\ exch_since_pub' = FALSE
    /\ between' = FALSE
    /\ ppc' = "idle"
    /\ ProducerStepSeen(TRUE)
    /\ UNCHANGED <<seqvars, memvars, buffers, value, input_ptr, consumer, upds, gapless,
                   query>>

\* Input::publish
Publish ==
    /\ ppc = "publish"
    /\ back_info' = PublishBackInfo(input_idx)
    /\ input_idx' = PublishInputIdx(back_info)
    /\ pubs' = Append(pubs, [ret |-> PublishResult(back_info),
                             dirty |-> Dirty(back_info),
                             exch |-> exch_since_pub,
                             slot |-> input_idx,
                             reclaimed |-> PublishInputIdx(back_info),
                             content |-> buffers[PublishInputIdx(back_info)],
                             nupds |-> Len(upds)])
    /\ exch_since_pub' = FALSE
    /\ between' = FALSE
    /\ ppc' = "idle"
    /\ ProducerStepSeen(TRUE)
    /\ UNCHANGED <<seqvars, memvars, buffers, value, input_ptr, consumer, upds, gapless,
                   query>>

----------------------------------------------------------------------------
\* Consumer: Output

\* Faulty variant: the consumer exchanges whether or not the dirty bit is set.
Updated_Always(info) == TRUE

\* Faulty variant: the consumer tests the index bits instead of the dirty bit.
Updated_IndexBits(info) == BitAnd(info, BACK_INDEX_MASK) # 0

\* Output::updated
Updated(info) == BitAnd(info, BACK_DIRTY_BIT) # 0

\* The reader loop goes on (while last_value < TEST_WRITE_COUNT): read() is
\* called; Output::update loads the dirty bit
Update ==
    /\ cpc = "idle"
    /\ last_value < MaxWrites
    /\ updated' = Updated(back_info)
    /\ cpc' = IF Updated(back_info) THEN "swap" ELSE "ref"
    /\ had_read' = TRUE
    /\ call' = [published |-> Published,
                producer_idle |-> (ppc = "idle"),
                quiet |-> TRUE,
                nopub |-> TRUE,
                prev_quiet |-> (had_read /\ call.quiet),
                prev_nopub |-> (had_read /\ call.nopub),
                snap |-> <<back_info, input_idx, output_idx, buffers>>]
    /\ UNCHANGED <<seqvars, memvars, shared, producer, output_idx, output_ptr, w0, new_value,
                   last_value, prev_value, exch_since_pub, history, query>>

\* The word Output::update swaps into the descriptor
UpdateBackInfo(idx) == idx

\* Faulty variant: the consumer keeps its output index after the exchange.
UpdateOutputIdx_Keep(former_back_info) == output_idx

\* Faulty variant: the index is extracted with the mask 0b01 instead of 0b11.
UpdateOutputIdx_Mask1(former_back_info) == BitAnd(former_back_info, 1)

\* The output index Output::update takes from the descriptor it replaced
UpdateOutputIdx(former_back_info) == BitAnd(former_back_info, BACK_INDEX_MASK)

\* Output::update, the exchange
UpdateSwap ==
    /\ cpc = "swap"
    /\ back_info' = UpdateBackInfo(output_idx)
    /\ output_idx' = UpdateOutputIdx(back_info)
    /\ exch_since_pub' = TRUE
    /\ upds' = Append(upds, [ret |-> updated,
                             dirty |-> Dirty(back_info),
                             published |-> Published,
                             raced |-> ~call.nopub,
                             taken |-> UpdateOutputIdx(back_info),
                             got |-> buffers[UpdateOutputIdx(back_info)],
                             abandoned |-> output_idx,
                             left |-> buffers[output_idx]])
    /\ cpc' = "ref"
    /\ UNCHANGED <<seqvars, memvars, buffers, producer, updated, output_ptr, w0, new_value,
                   last_value, prev_value, had_read, call, between, gapless, query>>

\* Output::output_buffer, the reference read() returns
OutputBuffer ==
    /\ cpc = "ref"
    /\ output_ptr' = output_idx
    /\ cpc' = "rd0"
    /\ UNCHANGED <<seqvars, memvars, shared, producer, output_idx, updated, w0, new_value,
                   last_value, prev_value, had_read, exch_since_pub, call, history, query>>

\* The caller loads the first word through the reference
Load0 ==
    /\ cpc = "rd0"
    /\ w0' = buffers[output_ptr][1]
    /\ cpc' = "rd1"
    /\ UNCHANGED <<seqvars, memvars, shared, producer, output_idx, updated, output_ptr, new_value,
                   last_value, prev_value, had_read, exch_since_pub, call, history, query>>

\* The reader's check of a value (UsizeRaceCell::get and the assert of the
\* reader loop): the two words agree, the value is not below the last one and
\* not above the number of writes.
Accepted(words, last) ==
    /\ words[1] = words[2]
    /\ words[1] >= last
    /\ words[1] <= MaxWrites

\* The caller loads the second word through the reference and checks the
\* value: it becomes last_value, or the reader panics.
Load1 ==
    /\ cpc = "rd1"
    /\ LET words == <<w0, buffers[output_ptr][2]>>
       IN  /\ new_value' = words
           /\ prev_value' = last_value
           /\ last_value' = IF Accepted(words, last_value) THEN words[1]
                             ELSE last_value
           /\ cpc' = IF Accepted(words, last_value) THEN "idle" ELSE "panic"
    /\ between' = (between \/ call.nopub)
    /\ UNCHANGED <<seqvars, memvars, shared, producer, output_idx, updated, output_ptr, w0,
                   had_read, exch_since_pub, call, upds, gapless, query>>

----------------------------------------------------------------------------
\* Diagnostic queries

\* Faulty variant: consumed() tests the dirty bit with the wrong sense.
Consumed_Inverted(info) == BitAnd(info, BACK_DIRTY_BIT) # 0

\* Input::consumed
Consumed(info) == BitAnd(info, BACK_DIRTY_BIT) = 0

\* The producer thread calls consumed() between two writes
InputConsumed ==
    /\ ppc = "idle"
    /\ query' = [by |-> "input", info |-> back_info, ret |-> Consumed(back_info)]
    /\ UNCHANGED <<seqvars, memvars, shared, producer, consumer, exch_since_pub, call,
                   history>>

\* The consumer thread calls updated() between two reads
OutputUpdated ==
    /\ cpc = "idle"
    /\ query' = [by |-> "output", info |-> back_info, ret |-> Updated(back_info)]
    /\ UNCHANGED <<seqvars, memvars, shared, producer, consumer, exch_since_pub, call,
                   history>>

----------------------------------------------------------------------------
\* Unsplit buffers, used from one thread (the sequential tests)

\* The type T of the sequential tests (TripleBuffer::new(false), write(true)).
Values == BOOLEAN

\* The descriptor words the tests store: an index, with or without the dirty bit.
BackInfoWords == {BitOr(i, d) : i \in BufferIndexes, d \in {0, BACK_DIRTY_BIT}}

\* No buffer: the handles refer to no shared state.
NoBuf == [input |-> [shared |-> 0, input_idx |-> 0],
          output |-> [shared |-> 0, output_idx |-> 0]]

Exists(b) == b.input.shared # 0

\* Faulty variant: the output handle starts on the back buffer's slot.
NewImpl_OutputOnBack(h, initial) ==
    [heap |-> Append(h, [buffers |-> [i \in BufferIndexes |-> initial],
                         back_info |-> 0]),
     buf |-> [input |-> [shared |-> Len(h) + 1, input_idx |-> 1],
              output |-> [shared |-> Len(h) + 1, output_idx |-> 0]]]

\* TripleBuffer::new_impl with the generator of TripleBuffer::new(initial):
\* one new shared state, both handles refer to it.
NewImpl(h, initial) ==
    [heap |-> Append(h, [buffers |-> [i \in BufferIndexes |-> initial],
                         back_info |-> 0]),
     buf |-> [input |-> [shared |-> Len(h) + 1, input_idx |-> 1],
              output |-> [shared |-> Len(h) + 1, output_idx |-> 2]]]

\* SharedState::clone
SharedStateClone(st) ==
    [buffers |-> <<st.buffers[0], st.buffers[1], st.buffers[2]>>,
     back_info |-> st.back_info]

\* Faulty variant: the clone shares the original's shared state (a clone of
\* the Arc instead of a clone of what it refers to).
TripleBufferClone_Alias(h, b) ==
    [heap |-> h,
     buf |-> [input |-> [shared |-> b.input.shared,
                         input_idx |-> b.input.input_idx],
              output |-> [shared |-> b.input.shared,
                          output_idx |-> b.output.output_idx]]]

\* impl Clone for TripleBuffer
TripleBufferClone(h, b) ==
    LET st == SharedStateClone(h[b.input.shared])
        shared_state == [buffers |-> [i \in BufferIndexes |-> st.buffers[i + 1]],
                         back_info |-> st.back_info]
    IN  [heap |-> Append(h, shared_state),
         buf |-> [input |-> [shared |-> Len(h) + 1,
                             input_idx |-> b.input.input_idx],
                  output |-> [shared |-> Len(h) + 1,
                              output_idx |-> b.output.output_idx]]]

\* SharedState::eq
SharedStateEq(st, other) ==
    /\ \A i \in BufferIndexes : st.buffers[i] = other.buffers[i]
    /\ st.back_info = other.back_info

\* Faulty variant: the output index is not compared.
TripleBufferEq_NoOutputIdx(h, a, b) ==
    /\ SharedStateEq(h[a.input.shared], h[b.input.shared])
    /\ a.input.input_idx = b.input.input_idx

\* impl PartialEq for TripleBuffer
TripleBufferEq(h, a, b) ==
    /\ SharedStateEq(h[a.input.shared], h[b.input.shared])
    /\ a.input.input_idx = b.input.input_idx
    /\ a.output.output_idx = b.output.output_idx

\* Input::publish on an unsplit buffer
InputPublish(h, b) ==
    LET former_back_info == h[b.input.shared].back_info
    IN  [heap |-> [h EXCEPT ![b.input.shared].back_info =
                                PublishBackInfo(b.input.input_idx)],
         buf |-> [b EXCEPT !.input.input_idx =
                               BitAnd(former_back_info, BACK_INDEX_MASK)],
         ret |-> PublishResult(former_back_info)]

\* Faulty variant: write stores the value into the back buffer's slot.
InputWrite_IntoBack(h, b, v) ==
    InputPublish([h EXCEPT ![b.input.shared].buffers[
                      BitAnd(h[b.input.shared].back_info, BACK_INDEX_MASK)] = v], b)

\* Input::write on an unsplit buffer
InputWrite(h, b, v) ==
    InputPublish([h EXCEPT ![b.input.shared].buffers[b.input.input_idx] = v], b)

\* Faulty variant: update leaves the dirty bit set in the descriptor.
OutputUpdate_KeepDirty(h, b) ==
    LET former_back_info == h[b.output.shared].back_info
        upd == Updated(former_back_info)
    IN  IF upd
        THEN [heap |-> [h EXCEPT ![b.output.shared].back_info =
                                     BitOr(b.output.output_idx, BACK_DIRTY_BIT)],
              buf |-> [b EXCEPT !.output.output_idx =
                                    BitAnd(former_back_info, BACK_INDEX_MASK)],
              ret |-> upd]
        ELSE [heap |-> h, buf |-> b, ret |-> upd]

\* Output::update on an unsplit buffer
OutputUpdate(h, b) ==
    LET former_back_info == h[b.output.shared].back_info
        upd == Updated(former_back_info)
    IN  IF upd
        THEN [heap |-> [h EXCEPT ![b.output.shared].back_info =
                                     UpdateBackInfo(b.output.output_idx)],
              buf |-> [b EXCEPT !.output.output_idx =
                                    BitAnd(former_back_info, BACK_INDEX_MASK)],
              ret |-> upd]
        ELSE [heap |-> h, buf |-> b, ret |-> upd]

\* Output::read on an unsplit buffer: the update, then the output buffer
OutputRead(h, b) ==
    LET u == OutputUpdate(h, b)
    IN  [heap |-> u.heap, buf |-> u.buf, updated |-> u.ret,
         ret |-> u.heap[u.buf.output.shared].buffers[u.buf.output.output_idx]]

Buf(which) == IF which = "A" THEN bufA ELSE bufB

\* The sequential tests are not running.
SeqIdle ==
    /\ heap = <<>>
    /\ bufA = NoBuf
    /\ bufB = NoBuf

\* let buf = TripleBuffer::new(initial)
SeqInit ==
    \E initial \in Values :
        LET n == NewImpl(<<>>, initial)
        IN  /\ heap = n.heap
            /\ bufA = n.buf
            /\ bufB = NoBuf

\* The second buffer goes out of use: its shared state is released, unless the
\* first buffer's handles refer to it too.
Release(h, b) ==
    IF Exists(b) /\ b.input.shared = Len(h) /\ b.input.shared # bufA.input.shared
    THEN SubSeq(h, 1, Len(h) - 1)
    ELSE h

\* A test assigns one field of a buffer: buf.input.input_idx = i
AssignInputIdx(h, b, i) ==
    [heap |-> h, buf |-> [b EXCEPT !.input.input_idx = i]]

\* buf.output.output_idx = i
AssignOutputIdx(h, b, i) ==
    [heap |-> h, buf |-> [b EXCEPT !.output.output_idx = i]]

\* buf.input.shared.back_info.store(w, Ordering::Relaxed)
StoreBackInfo(h, b, w) ==
    [heap |-> [h EXCEPT ![b.input.shared].back_info = w], buf |-> b]

\* *buf.input.shared.buffers[i].get() = v
AssignSlot(h, b, i, v) ==
    [heap |-> [h EXCEPT ![b.input.shared].buffers[i] = v], buf |-> b]

\* The statement on the given buffer leaves the heap and the buffer of n; the
\* other buffer's handles are not touched.
Becomes(which, n) ==
    /\ IF which = "A"
       THEN bufB' = bufB /\ bufA' = n.buf
       ELSE bufA' = bufA /\ bufB' = n.buf
    /\ heap' = n.heap

\* The step of buf.input.write(v) on one of the two buffers
Write(which, v) ==
    /\ Exists(Buf(which))
    /\ Becomes(which, InputWrite(heap, Buf(which), v))

\* The step of *buf.output.read() on one of the two buffers
Read(which) ==
    /\ Exists(Buf(which))
    /\ Becomes(which, OutputRead(heap, Buf(which)))

\* let buf2 = TripleBuffer::new(initial)
SeqNew ==
    /\ \E initial \in Values :
          Becomes("B", NewImpl(Release(heap, bufB), initial))
    /\ UNCHANGED <<convars, memvars>>

\* let buf_clone = buf.clone()
SeqClone ==
    /\ Becomes("B", TripleBufferClone(Release(heap, bufB), bufA))
    /\ UNCHANGED <<convars, memvars>>

\* buf.input.write(v)
SeqWrite ==
    /\ \E which \in {"A", "B"}, v \in Values : Write(which, v)
    /\ UNCHANGED <<convars, memvars>>

\* *buf.output.read()
SeqRead ==
    /\ \E which \in {"A", "B"} : Read(which)
    /\ UNCHANGED <<convars, memvars>>

\* A test assigns a field of a buffer (tests::clone before it clones,
\* tests::partial_eq on the third buffer), any number of times: an index, the
\* descriptor word or one slot.
SeqPoke ==
    /\ \E which \in {"A", "B"} :
          LET b == Buf(which)
          IN  /\ Exists(b)
              /\ \/ \E i \in BufferIndexes :
                       Becomes(which, AssignInputIdx(heap, b, i))
                 \/ \E i \in BufferIndexes :
                       Becomes(which, AssignOutputIdx(heap, b, i))
                 \/ \E w \in BackInfoWords :
                       Becomes(which, StoreBackInfo(heap, b, w))
                 \/ \E i \in BufferIndexes, v \in Values :
                       Becomes(which, AssignSlot(heap, b, i, v))
    /\ UNCHANGED <<convars, memvars>>

\* The statements of a test that uses one buffer.
SoloNext ==
    \/ SeqWrite
    \/ SeqRead
    \/ SeqPoke

\* The statements of a test that uses two buffers.
SeqNext ==
    \/ SeqNew
    \/ SeqClone
    \/ SeqWrite
    \/ SeqRead
    \/ SeqPoke


----------------------------------------------------------------------------
\* The two threads under the memory orderings of the exchanges.
\* Every store to a word of a slot is kept, numbered in the order it was made.
\* A thread's view gives, for each word of each slot, the number of the last
\* store that happens before the thread's next step; a load returns a store
\* that is not older than the view. A word stored to back_info with a release
\* ordering carries the storing thread's view, an exchange with an acquire
\* ordering adds the view of the word it replaces to the thread's view, and
\* the word an exchange stores carries the view of the word it replaces.

\* Number of in-place stores of the consumer per run (raw_output_buffer).
MaxEdits == 1

\* Faulty variant: publish exchanges with Relaxed ordering.
InputSwapOrdering_Relaxed(r) == IF r THEN "AcqRel" ELSE "Relaxed"

\* Input::swap_ordering
InputSwapOrdering(r) == IF r THEN "AcqRel" ELSE "Release"

\* Faulty variant: update exchanges with Acquire ordering in raw builds too.
OutputSwapOrdering_Acquire(r) == "Acquire"

\* Output::swap_ordering
OutputSwapOrdering(r) == IF r THEN "AcqRel" ELSE "Acquire"

IsAcquire(ordering) == ordering \in {"Acquire", "AcqRel"}
IsRelease(ordering) == ordering \in {"Release", "AcqRel"}

Words == 1..2

Max(a, b) == IF a >= b THEN a ELSE b

\* The view that knows what either view knows.
Join(v1, v2) ==
    [i \in BufferIndexes |-> [w \in Words |-> Max(v1[i][w], v2[i][w])]]

\* The numbers of the last stores made to the words of a slot.
LastStores(m, i) == [w \in Words |-> Len(m[i][w])]

\* The view after construction: the stores of new_impl.
InitialView == [i \in BufferIndexes |-> [w \in Words |-> 1]]

\* AtomicUsize::swap(word, ordering) by a thread with view `view`: the view
\* the thread has afterwards, the word it got, and the descriptor history
\* with the new word, which carries the view a later acquire obtains from it.
AtomicSwap(d, view, word, ordering, by, given) ==
    LET former == d[Len(d)]
        after == IF IsAcquire(ordering) THEN Join(view, former.view) ELSE view
        carried == IF IsRelease(ordering) THEN Join(after, former.view)
                   ELSE former.view
    IN  [desc |-> Append(d, [word |-> word, view |-> carried, by |-> by,
                             given |-> given]),
         view |-> after,
         former |-> former]

\* The values a load of word w of slot i may return to a thread with this view.
Observable(m, view, i, w) == {m[i][w][t] : t \in view[i][w]..Len(m[i][w])}

\* The value the consumer leaves in a word when it edits its output slot in place.
Edited(v) == v + 10

NoGiven == [slot |-> 0, stores |-> [w \in Words |-> 1], val |-> InitialValue]

MemIdle ==
    /\ raw = FALSE
    /\ mem = <<>>
    /\ desc = <<>>
    /\ pt = [pc |-> "idle"]
    /\ ct = [pc |-> "idle"]

\* TripleBuffer::new_impl and split, in a build with or without the raw feature
MemInit ==
    /\ raw \in BOOLEAN
    /\ mem = [i \in BufferIndexes |-> [w \in Words |-> <<InitialValue>>]]
    /\ desc = <<[word |-> 0, view |-> InitialView, by |-> "new",
                 given |-> NoGiven]>>
    /\ pt = [pc |-> "idle", input_idx |-> 1, value |-> 0, ptr |-> 1,
             view |-> InitialView, peeked |-> InitialValue,
             reclaimed |-> NoGiven, from |-> "new"]
    /\ ct = [pc |-> "idle", output_idx |-> 2, updated |-> FALSE, ptr |-> 2,
             view |-> InitialView, dview |-> 1, w0 |-> InitialValue,
             got |-> RaceCell(InitialValue), pulled |-> NoGiven,
             has_pulled |-> FALSE, edits |-> 0, fresh |-> FALSE,
             loaded |-> FALSE]

\* Input::input_buffer (Input::raw_input_buffer in a raw build)
MemInputBuffer ==
    /\ pt.pc = "idle"
    /\ pt.value < MaxWrites
    /\ pt' = [pt EXCEPT !.value = @ + 1, !.ptr = pt.input_idx,
                        !.pc = IF raw THEN "peek" ELSE "store0"]
    /\ UNCHANGED <<convars, seqvars, raw, mem, desc, ct>>

\* Raw build: the producer loads the first word of the slot it got back
MemPeek ==
    /\ pt.pc = "peek"
    /\ \E v \in Observable(mem, pt.view, pt.ptr, 1) :
          pt' = [pt EXCEPT !.peeked = v, !.pc = "store0"]
    /\ UNCHANGED <<convars, seqvars, raw, mem, desc, ct>>

\* The producer stores the first word of the value
MemStore0 ==
    /\ pt.pc = "store0"
    /\ mem' = [mem EXCEPT ![pt.ptr][1] = Append(@, pt.value)]
    /\ pt' = [pt EXCEPT !.view[pt.ptr][1] = Len(mem[pt.ptr][1]) + 1,
                        !.pc = "store1"]
    /\ UNCHANGED <<convars, seqvars, raw, desc, ct>>

\* The producer stores the second word of the value
MemStore1 ==
    /\ pt.pc = "store1"
    /\ mem' = [mem EXCEPT ![pt.ptr][2] = Append(@, pt.value)]
    /\ pt' = [pt EXCEPT !.view[pt.ptr][2] = Len(mem[pt.ptr][2]) + 1,
                        !.pc = "publish"]
    /\ UNCHANGED <<convars, seqvars, raw, desc, ct>>

\* Input::publish, with the ordering of Input::swap_ordering
MemPublish ==
    /\ pt.pc = "publish"
    /\ LET x == AtomicSwap(desc, pt.view, PublishBackInfo(pt.input_idx),
                           InputSwapOrdering(raw), "input",
                           [slot |-> pt.input_idx,
                            stores |-> LastStores(mem, pt.input_idx),
                            val |-> pt.value])
       IN  /\ desc' = x.desc
           /\ pt' = [pt EXCEPT !.view = x.view,
                               !.input_idx = PublishInputIdx(x.former.word),
                               !.reclaimed = x.former.given,
                               !.from = x.former.by,
                               !.pc = "idle"]
    /\ UNCHANGED <<convars, seqvars, raw, mem, ct>>

\* Output::update: the relaxed load of Output::updated, which returns the
\* last word stored to back_info or an older one the thread has not yet seen
\* a successor of
MemUpdate ==
    /\ ct.pc = "idle"
    /\ \E n \in ct.dview..Len(desc) :
          ct' = [ct EXCEPT !.updated = Updated(desc[n].word),
                           !.dview = n,
                           !.fresh = FALSE,
                           !.loaded = FALSE,
                           !.pc = IF Updated(desc[n].word) THEN "swap" ELSE "ref"]
    /\ UNCHANGED <<convars, seqvars, raw, mem, desc, pt>>

\* Output::update: the exchange, with the ordering of Output::swap_ordering
MemUpdateSwap ==
    /\ ct.pc = "swap"
    /\ LET x == AtomicSwap(desc, ct.view, UpdateBackInfo(ct.output_idx),
                           OutputSwapOrdering(raw), "output",
                           [slot |-> ct.output_idx,
                            stores |-> LastStores(mem, ct.output_idx),
                            val |-> mem[ct.output_idx][1][Len(mem[ct.output_idx][1])]])
       IN  /\ desc' = x.desc
           /\ ct' = [ct EXCEPT !.view = x.view,
                               !.dview = Len(x.desc),
                               !.output_idx = UpdateOutputIdx(x.former.word),
                               !.pulled = x.former.given,
                               !.has_pulled = TRUE,
                               !.fresh = TRUE,
                               !.pc = "ref"]
    /\ UNCHANGED <<convars, seqvars, raw, mem, pt>>

\* Output::output_buffer (Output::raw_output_buffer in a raw build)
MemOutputBuffer ==
    /\ ct.pc = "ref"
    /\ ct' = [ct EXCEPT !.ptr = ct.output_idx, !.pc = "rd0"]
    /\ UNCHANGED <<convars, seqvars, raw, mem, desc, pt>>

\* The consumer loads the first word through the reference
MemLoad0 ==
    /\ ct.pc = "rd0"
    /\ \E v \in Observable(mem, ct.view, ct.ptr, 1) :
          ct' = [ct EXCEPT !.w0 = v, !.pc = "rd1"]
    /\ UNCHANGED <<convars, seqvars, raw, mem, desc, pt>>

\* The consumer loads the second word through the reference
MemLoad1 ==
    /\ ct.pc = "rd1"
    /\ \E v \in Observable(mem, ct.view, ct.ptr, 2) :
          ct' = [ct EXCEPT !.got = <<ct.w0, v>>, !.loaded = TRUE, !.pc = "idle"]
    /\ UNCHANGED <<convars, seqvars, raw, mem, desc, pt>>

\* Raw build: the consumer edits the value it read in place
\* (Output::raw_output_buffer), first word
MemEdit0 ==
    /\ ct.pc = "idle"
    /\ raw
    /\ ct.loaded
    /\ ct.edits < MaxEdits
    /\ mem' = [mem EXCEPT ![ct.ptr][1] = Append(@, Edited(ct.got[1]))]
    /\ ct' = [ct EXCEPT !.view[ct.ptr][1] = Len(mem[ct.ptr][1]) + 1,
                        !.pc = "edit1"]
    /\ UNCHANGED <<convars, seqvars, raw, desc, pt>>

\* Raw build: the consumer edits the value it read in place, second word
MemEdit1 ==
    /\ ct.pc = "edit1"
    /\ mem' = [mem EXCEPT ![ct.ptr][2] = Append(@, Edited(ct.got[2]))]
    /\ ct' = [ct EXCEPT !.view[ct.ptr][2] = Len(mem[ct.ptr][2]) + 1,
                        !.edits = @ + 1,
                        !.loaded = FALSE,
                        !.pc = "idle"]
    /\ UNCHANGED <<convars, seqvars, raw, desc, pt>>

MemNext ==
    \/ MemInputBuffer
    \/ MemPeek
    \/ MemStore0
    \/ MemStore1
    \/ MemPublish
    \/ MemUpdate
    \/ MemUpdateSwap
    \/ MemOutputBuffer
    \/ MemLoad0
    \/ MemLoad1
    \/ MemEdit0
    \/ MemEdit1

----------------------------------------------------------------------------
Next ==
    \/ InputBuffer
    \/ Store0
    \/ Store1
    \/ Publish
    \/ Update
    \/ UpdateSwap
    \/ OutputBuffer
    \/ Load0
    \/ Load1
    \/ InputConsumed
    \/ OutputUpdated

\* The two threads run on a split buffer; the sequential tests do not run.
SpecInit == Init /\ SeqIdle /\ MemIdle

Spec == SpecInit /\ [][Next]_vars

\* The sequential tests: one thread uses unsplit buffers; no thread pair runs.
SeqSpecInit == Init /\ SeqInit /\ MemIdle

SeqSpec == SeqSpecInit /\ [][SeqNext]_vars

\* The sequential tests on one buffer (tests::sequential_write, sequential_read).
SoloSpecInit == Init /\ SeqInit /\ MemIdle

SoloSpec == SoloSpecInit /\ [][SoloNext]_vars

\* The two threads under the memory orderings; the other runs do not run.
MemSpecInit == Init /\ SeqIdle /\ MemInit

MemSpec == MemSpecInit /\ [][MemNext]_vars

\* The steps of the writer thread and of the reader thread.
ProducerStep == InputBuffer \/ Store0 \/ Store1 \/ Publish
ConsumerStep == Update \/ UpdateSwap \/ OutputBuffer \/ Load0 \/ Load1

\* The reader thread keeps running (the reader loop of the concurrent tests);
\* nothing is assumed of the writer thread.
LiveSpec == Spec /\ WF_vars(ConsumerStep)

----------------------------------------------------------------------------
\* Properties

BackIdx == BitAnd(back_info, BACK_INDEX_MASK)

\* A read has returned and the consumer has not called the next one (the
\* reader is between two reads, has left its loop, or has panicked on the
\* value).
ReadReturned == had_read /\ cpc \in {"idle", "panic"}

\* The producer is storing through the pointer input_buffer() gave it.
Storing == ppc \in {"store0", "store1"}

\* The consumer is loading through the reference read() gave it.
Loading == cpc \in {"rd0", "rd1"}

\* Values whose publish was followed by another publish with no consumer
\* exchange in between (the k-th publish publishes the value k).
Lost == {i \in 1..(Len(pubs) - 1) : ~pubs[i + 1].exch}

\* C1: in every reachable state input_idx, output_idx and the back index
\* (back_info & 0b11) are pairwise distinct: together they are {0, 1, 2}.
C1_SlotPartition ==
    /\ {input_idx, output_idx, BackIdx} = BufferIndexes
    /\ input_idx # output_idx
    /\ input_idx # BackIdx
    /\ output_idx # BackIdx

C1_Witness ==
    /\ Published = 2
    /\ input_idx = 2
    /\ output_idx = 1
    /\ BackIdx = 0

\* C2: the producer stores only into the slot its input_idx names, the
\* consumer loads only from the slot its output_idx names, and the producer
\* never stores into a slot the consumer is loading from or holds as its
\* output slot.
C2_NoSlotRace ==
    /\ Storing => (input_ptr = input_idx /\ input_ptr # output_idx)
    /\ (Loading \/ ReadReturned) => output_ptr = output_idx
    /\ (Storing /\ (Loading \/ ReadReturned)) => input_ptr # output_ptr

C2_Witness ==
    /\ ppc = "store1"
    /\ cpc = "rd1"
    /\ updated
    /\ Published >= 2
    /\ input_ptr = 1
    /\ output_ptr = 0

\* C3: with the producer writing 1, 2, ..., N on a buffer initialised to 0,
\* the values successive reads return never decrease and lie in [0, N].
C3_MonotoneReads ==
    /\ new_value[1] >= prev_value
    /\ last_value >= prev_value
    /\ new_value[1] \in 0..MaxWrites
    /\ last_value \in 0..MaxWrites
    /\ prev_value \in 0..MaxWrites

C3_Witness ==
    /\ ReadReturned
    /\ prev_value = 1
    /\ last_value = 3
    /\ new_value = RaceCell(3)

\* C4: with stores and loads of a payload taking two steps each, every read
\* returns exactly the initial value or exactly the whole value of some write.
C4_NoTornRead ==
    \E v \in {InitialValue} \cup (1..value) : new_value = RaceCell(v)

C4_Witness ==
    /\ ReadReturned
    /\ ~call.producer_idle
    /\ ppc = "store1"
    /\ value = call.published + 1
    /\ call.published >= 1
    /\ updated
    /\ new_value = RaceCell(call.published)

\* C5: a read called after write(v) has returned returns v or the value of a
\* later write, never the initial value or the value of an earlier write.
C5_VisibleAfterWrite ==
    ReadReturned =>
        /\ new_value[1] >= call.published
        /\ new_value[2] >= call.published

C5_Witness ==
    /\ ReadReturned
    /\ call.published = 2
    /\ new_value = RaceCell(3)

\* C6: write(v) followed by read(), with no other write in between, returns v.
C6_WriteThenRead ==
    (ReadReturned /\ call.producer_idle /\ call.quiet /\ value >= 1) =>
        new_value = RaceCell(value)

C6_Witness ==
    /\ ReadReturned
    /\ call.producer_idle
    /\ call.quiet
    /\ value = 2
    /\ updated
    /\ new_value = RaceCell(2)

\* C7: for write(v1); write(v2); read() with no consumer exchange between the
\* two publishes, the publish for v2 reports an overwrite, the publish for v1
\* reports no overwrite exactly when the descriptor was not dirty before it,
\* and the read returns v2.
C7_OverwriteSemantics ==
    /\ \A i \in 2..Len(pubs) :
          ~pubs[i].exch =>
              /\ pubs[i].ret
              /\ (~pubs[i - 1].ret) <=> (~pubs[i - 1].dirty)
    /\ (/\ ReadReturned
        /\ Len(pubs) >= 2
        /\ ~pubs[Len(pubs)].exch
        /\ call.published = Len(pubs)
        /\ call.producer_idle
        /\ call.quiet) => new_value = RaceCell(Len(pubs))

C7_Witness ==
    /\ ReadReturned
    /\ Len(pubs) = 2
    /\ ~pubs[2].exch
    /\ ~pubs[1].ret
    /\ pubs[2].ret
    /\ call.published = 2
    /\ call.producer_idle
    /\ call.quiet
    /\ new_value = RaceCell(2)

\* C8: publish returns true exactly when the dirty bit was set in the
\* descriptor it replaced, that is, exactly when the consumer exchanged
\* nothing since the previous publish; the first publish returns false.
C8_PublishFlag ==
    \A i \in 1..Len(pubs) :
        /\ pubs[i].ret <=> pubs[i].dirty
        /\ pubs[i].ret <=> (i > 1 /\ ~pubs[i].exch)
        /\ (i = 1) => ~pubs[i].ret

C8_Witness ==
    /\ Len(pubs) = 3
    /\ ~pubs[1].ret
    /\ pubs[2].ret
    /\ ~pubs[3].ret

\* C9: a value whose publish is followed by another publish with no consumer
\* exchange in between is never returned by a read.
C9_LostNeverRead ==
    had_read =>
        /\ new_value[1] \notin Lost
        /\ new_value[2] \notin Lost
        /\ last_value \notin Lost

C9_Witness ==
    /\ ReadReturned
    /\ 1 \in Lost
    /\ call.published >= 2
    /\ updated
    /\ new_value = RaceCell(2)

\* C10: a second read with no publish since the first read was called
\* returns the same value and exchanges nothing: the descriptor, output_idx,
\* input_idx and the slots are as they were when it was called (the slot a
\* write in progress is storing into excepted; with no producer step at all,
\* all three slots).
C10_IdempotentCleanRead ==
    /\ (ReadReturned /\ call.prev_nopub /\ call.nopub) =>
          /\ new_value = RaceCell(prev_value)
          /\ ~updated
          /\ back_info = call.snap[1]
          /\ input_idx = call.snap[2]
          /\ output_idx = call.snap[3]
          /\ \A i \in BufferIndexes \ {input_idx} : buffers[i] = call.snap[4][i]
    /\ (ReadReturned /\ call.prev_quiet /\ call.quiet) =>
          buffers = call.snap[4]

C10_Witness ==
    /\ ReadReturned
    /\ call.prev_quiet
    /\ call.quiet
    /\ ~updated
    /\ Published = 2
    /\ new_value = RaceCell(2)
    /\ Dirty(back_info) = FALSE

\* The reference the last read() returned is live: update has returned and
\* the next read has not been called.
RefLive == had_read /\ cpc \in {"ref", "rd0", "rd1", "idle"}

\* C11: between one read()/update() call and the next, the consumer's output
\* slot and its contents do not change, whatever the producer does.
C11_OutputSlotStable ==
    [][(RefLive /\ RefLive') =>
          /\ output_idx' = output_idx
          /\ buffers'[output_idx] = buffers[output_idx]]_vars

C11_Witness ==
    /\ ReadReturned
    /\ ~updated
    /\ call.published >= 1
    /\ Published = call.published + 2
    /\ new_value = RaceCell(call.published)
    /\ buffers[output_idx] = new_value

\* Steps an operation still has to take from a position.
ProducerStepsLeft(pc) ==
    CASE pc = "store0" -> 3 [] pc = "store1" -> 2 [] pc = "publish" -> 1
      [] OTHER -> 0

ConsumerStepsLeft(pc) ==
    CASE pc = "swap" -> 4 [] pc = "ref" -> 3 [] pc = "rd0" -> 2 [] pc = "rd1" -> 1
      [] OTHER -> 0

\* C12: every operation ends after a fixed number of its own thread's steps,
\* with no loop or retry, and each of its steps is enabled whatever position
\* the other thread is in.
C12_WaitFree ==
    /\ [](/\ (ppc # "idle") => ENABLED (Store0 \/ Store1 \/ Publish)
          /\ (ppc = "idle" /\ value < MaxWrites) => ENABLED InputBuffer
          /\ (cpc \notin {"idle", "panic"}) =>
                ENABLED (UpdateSwap \/ OutputBuffer \/ Load0 \/ Load1)
          /\ (cpc = "idle" /\ last_value < MaxWrites) => ENABLED Update)
    /\ [][/\ (ppc' # ppc /\ ppc # "idle") =>
                ProducerStepsLeft(ppc') < ProducerStepsLeft(ppc)
          /\ (cpc' # cpc /\ cpc # "idle") =>
                ConsumerStepsLeft(cpc') < ConsumerStepsLeft(cpc)]_vars

C12_Witness ==
    /\ ppc = "publish"
    /\ cpc = "swap"
    /\ Dirty(back_info)
    /\ Published >= 1

\* C13: a read whose dirty-bit load saw the bit clear returns the value of
\* the last publish completed before that load, or the initial value when
\* there was none.
C13_CleanReadIsLatest ==
    (ReadReturned /\ ~updated) =>
        new_value = RaceCell(IF call.published = 0 THEN InitialValue
                             ELSE call.published)

C13_Witness ==
    /\ ReadReturned
    /\ ~updated
    /\ call.published = 2
    /\ Published = 3
    /\ new_value = RaceCell(2)

\* C14: every read called before any publish returns the initial value and
\* exchanges nothing; after the first write(y) a read returns y, and a
\* further read returns y again with no new exchange.
C14_BasicHandoff ==
    /\ (ReadReturned /\ call.published = 0) =>
          /\ new_value = RaceCell(InitialValue)
          /\ ~updated
          /\ output_idx = 2
    /\ (ReadReturned /\ call.published = 1 /\ call.producer_idle /\ call.quiet) =>
          new_value = RaceCell(1)
    /\ (ReadReturned /\ call.published = 1 /\ call.producer_idle /\ call.quiet
            /\ call.prev_quiet) =>
          /\ ~updated
          /\ back_info = call.snap[1]
          /\ output_idx = call.snap[3]

C14_Witness ==
    /\ ReadReturned
    /\ Published = 1
    /\ call.producer_idle
    /\ call.quiet
    /\ call.prev_quiet
    /\ prev_value = 1
    /\ last_value = 1
    /\ new_value = RaceCell(1)
    /\ ~updated
    /\ ~Dirty(back_info)

\* C16: with finitely many writes and a consumer that keeps calling read(),
\* from some point on every read returns the value of the last write.
C16_EventuallyLatest ==
    /\ []<>ReadReturned
    /\ <>[](ReadReturned => new_value = RaceCell(IF Published = 0 THEN InitialValue
                                                 ELSE Published))

C16_Witness ==
    /\ ReadReturned
    /\ Published = MaxWrites
    /\ new_value = RaceCell(MaxWrites)
    /\ last_value = MaxWrites
    /\ prev_value < MaxWrites

\* What a test can observe of an unsplit buffer: the three slots, the
\* descriptor word and the two indices.
View(h, b) ==
    [buffers |-> h[b.input.shared].buffers,
     back_info |-> h[b.input.shared].back_info,
     input_idx |-> b.input.input_idx,
     output_idx |-> b.output.output_idx]

BufOf(a, b, which) == IF which = "A" THEN a ELSE b

\* The buffer is as construction with the given initial value leaves it:
\* input_idx = 1, output_idx = 2, back index 0, dirty bit clear, the three
\* indices in 0..2 and pairwise distinct, every slot equal to the initial
\* value, both handles on one shared state.
AsConstructed(h, b, initial) ==
    LET st == h[b.input.shared]
        back_idx == BitAnd(st.back_info, BACK_INDEX_MASK)
    IN  /\ b.input.input_idx = 1
        /\ b.output.output_idx = 2
        /\ back_idx = 0
        /\ ~Dirty(st.back_info)
        /\ {b.input.input_idx, b.output.output_idx, back_idx} \subseteq BufferIndexes
        /\ b.input.input_idx # b.output.output_idx
        /\ b.input.input_idx # back_idx
        /\ b.output.output_idx # back_idx
        /\ \A i \in BufferIndexes : st.buffers[i] = initial
        /\ b.input.shared = b.output.shared
        /\ b.input.shared \in 1..Len(h)

\* C15: right after construction input_idx = 1, output_idx = 2, the back
\* index is 0, the dirty bit is clear, the three indices are in 0..2 and
\* pairwise distinct, every slot holds the initial value, and both handles
\* refer to the same shared state. (The first buffer of a test, and a second
\* one built in whatever state the test has reached.)
C15_InitialState ==
    \A initial \in Values :
        LET first == NewImpl(<<>>, initial)
            second == NewImpl(Release(heap, bufB), initial)
        IN  /\ AsConstructed(first.heap, first.buf, initial)
            /\ AsConstructed(second.heap, second.buf, initial)

\* The first buffer has been written to; the second one is as
\* TripleBuffer::new(true) leaves it.
C15_Witness ==
    /\ Exists(bufB)
    /\ AsConstructed(heap, bufB, TRUE)
    /\ bufB.input.shared # bufA.input.shared
    /\ heap[bufA.input.shared].back_info = 1 + BACK_DIRTY_BIT
    /\ bufA.input.input_idx = 0

\* C17: cloning an unsplit buffer, in any state, gives a buffer with its own
\* shared state that compares equal to the original, field by field, and
\* leaves the original as it was; afterwards a write or read on either buffer
\* changes no slot, descriptor or index of the other. (In every state the
\* tests reach: what clone() returns there, and, with two buffers in use, what
\* a write or a read on one of them leaves of the other.)
C17_CloneFidelity ==
    /\ LET n == TripleBufferClone(Release(heap, bufB), bufA)
       IN  /\ TripleBufferEq(n.heap, bufA, n.buf)
           /\ View(n.heap, n.buf) = View(heap, bufA)
           /\ View(n.heap, bufA) = View(heap, bufA)
           /\ n.buf.input.shared # bufA.input.shared
           /\ n.buf.input.shared = n.buf.output.shared
    /\ Exists(bufB) =>
          \A which \in {"A", "B"} :
              LET other == Buf(IF which = "A" THEN "B" ELSE "A")
              IN  /\ View(OutputRead(heap, Buf(which)).heap, other)
                        = View(heap, other)
                  /\ \A v \in Values :
                        View(InputWrite(heap, Buf(which), v).heap, other)
                           = View(heap, other)

\* The clone was taken with a value published and not yet read; the original
\* has read it since, the clone is as it was made.
C17_Witness ==
    /\ Exists(bufB)
    /\ bufA.input.shared # bufB.input.shared
    /\ View(heap, bufB) = [buffers |-> [i \in BufferIndexes |-> i = 1],
                           back_info |-> 1 + BACK_DIRTY_BIT,
                           input_idx |-> 0, output_idx |-> 2]
    /\ View(heap, bufA) = [buffers |-> [i \in BufferIndexes |-> i = 1],
                           back_info |-> 2,
                           input_idx |-> 0, output_idx |-> 1]
    /\ ~TripleBufferEq(heap, bufA, bufB)

\* The two buffers agree on every slot, on the back index, on the dirty bit
\* and on both indices.
SameFields(h, a, b) ==
    /\ \A i \in BufferIndexes :
          h[a.input.shared].buffers[i] = h[b.input.shared].buffers[i]
    /\ BitAnd(h[a.input.shared].back_info, BACK_INDEX_MASK)
          = BitAnd(h[b.input.shared].back_info, BACK_INDEX_MASK)
    /\ Dirty(h[a.input.shared].back_info) = Dirty(h[b.input.shared].back_info)
    /\ a.input.input_idx = b.input.input_idx
    /\ a.output.output_idx = b.output.output_idx

\* What one assignment to a field of the buffer can leave: a changed index,
\* back index, dirty bit or slot.
Changed(h, b) ==
    LET all == {AssignInputIdx(h, b, i) : i \in BufferIndexes}
                  \cup {AssignOutputIdx(h, b, i) : i \in BufferIndexes}
                  \cup {StoreBackInfo(h, b, w) : w \in BackInfoWords}
                  \cup {AssignSlot(h, b, i, v) : i \in BufferIndexes, v \in Values}
    IN  {n \in all : View(n.heap, n.buf) # View(h, b)}

\* C18: two unsplit buffers compare equal exactly when their slots, their
\* descriptor words and their two indices are equal; buffers built with equal
\* initial values compare equal, and changing one index, the back index, the
\* dirty bit or one slot of one of two equal buffers makes them unequal.
C18_Equality ==
    /\ Exists(bufB) =>
          /\ TripleBufferEq(heap, bufA, bufB) <=> SameFields(heap, bufA, bufB)
          /\ TripleBufferEq(heap, bufB, bufA) <=> SameFields(heap, bufA, bufB)
          /\ TripleBufferEq(heap, bufA, bufA)
          /\ TripleBufferEq(heap, bufB, bufB)
          /\ TripleBufferEq(heap, bufA, bufB) =>
                /\ \A n \in Changed(heap, bufA) :
                      ~TripleBufferEq(n.heap, n.buf, bufB)
                /\ \A n \in Changed(heap, bufB) :
                      ~TripleBufferEq(n.heap, bufA, n.buf)
    /\ \A initial \in Values :
          AsConstructed(heap, bufA, initial) =>
             LET n == NewImpl(Release(heap, bufB), initial)
             IN  TripleBufferEq(n.heap, bufA, n.buf)

\* The two buffers differ in output_idx alone.
C18_Witness ==
    /\ Exists(bufB)
    /\ bufA.input.shared # bufB.input.shared
    /\ SharedStateEq(heap[bufA.input.shared], heap[bufB.input.shared])
    /\ bufA.input.input_idx = bufB.input.input_idx
    /\ bufA.output.output_idx # bufB.output.output_idx
    /\ ~TripleBufferEq(heap, bufA, bufB)

\* C19: with no concurrent publish, update() from a state with the dirty bit
\* set puts the old output_idx, dirty bit clear, in the descriptor, takes the
\* old back index as output_idx, returns true and changes neither input_idx
\* nor any slot; with the dirty bit clear it returns false and changes
\* nothing. It returns true exactly when it exchanged.
C19_UpdateEffect ==
    [][\A which \in {"A", "B"} :
          Read(which) =>
             LET o == View(heap, Buf(which))
                 n == View(heap', BufOf(bufA', bufB', which))
                 ret == OutputRead(heap, Buf(which)).updated
             IN  /\ Dirty(o.back_info) =>
                       /\ n.back_info = o.output_idx
                       /\ ~Dirty(n.back_info)
                       /\ n.output_idx = BitAnd(o.back_info, BACK_INDEX_MASK)
                       /\ ret
                       /\ n.input_idx = o.input_idx
                       /\ n.buffers = o.buffers
                 /\ ~Dirty(o.back_info) => (~ret /\ n = o)
                 /\ ret <=> (n.back_info # o.back_info)]_vars

\* One buffer, after write(true) and a read that exchanged.
C19_Witness ==
    /\ ~Exists(bufB)
    /\ bufA.output.output_idx = 1
    /\ bufA.input.input_idx = 0
    /\ heap[bufA.input.shared].back_info = 2
    /\ heap[bufA.input.shared].buffers[1] = TRUE
    /\ heap[bufA.input.shared].buffers[0] = FALSE
    /\ heap[bufA.input.shared].buffers[2] = FALSE

\* C20: with no concurrent consumer step, write(v) stores v into the slot
\* that was the input slot, puts (old input_idx, dirty) in the descriptor,
\* takes the old back index as input_idx, and leaves output_idx and the other
\* two slots as they were.
C20_WriteEffect ==
    [][\A which \in {"A", "B"}, v \in Values :
          Write(which, v) =>
             LET o == View(heap, Buf(which))
                 n == View(heap', BufOf(bufA', bufB', which))
                 ret == InputWrite(heap, Buf(which), v).ret
             IN  /\ n.buffers[o.input_idx] = v
                 /\ \A i \in BufferIndexes \ {o.input_idx} :
                       n.buffers[i] = o.buffers[i]
                 /\ BitAnd(n.back_info, BACK_INDEX_MASK) = o.input_idx
                 /\ Dirty(n.back_info)
                 /\ n.back_info = o.input_idx + BACK_DIRTY_BIT
                 /\ n.input_idx = BitAnd(o.back_info, BACK_INDEX_MASK)
                 /\ n.output_idx = o.output_idx
                 /\ ret <=> Dirty(o.back_info)]_vars

\* One buffer, after write(true) twice: the second write found the first
\* unread.
C20_Witness ==
    /\ ~Exists(bufB)
    /\ bufA.input.input_idx = 1
    /\ bufA.output.output_idx = 2
    /\ heap[bufA.input.shared].back_info = BACK_DIRTY_BIT
    /\ heap[bufA.input.shared].buffers[0] = TRUE
    /\ heap[bufA.input.shared].buffers[1] = TRUE
    /\ heap[bufA.input.shared].buffers[2] = FALSE

----------------------------------------------------------------------------
\* Properties of the diagnostic queries and of the exchange history

\* C21: a diagnostic query changes neither the descriptor, nor input_idx, nor
\* output_idx, nor any slot; consumed() returns true exactly when the dirty
\* bit of the word it loaded is clear and updated() exactly when it is set, so
\* on the same descriptor word the two return opposite answers; before any
\* publish consumed() is true and updated() is false.
C21_Queries ==
    /\ [](/\ (query.by = "input") => (query.ret <=> ~Dirty(query.info))
          /\ (query.by = "output") => (query.ret <=> Dirty(query.info)))
    /\ [][(query' # query) =>
            /\ buffers' = buffers
            /\ back_info' = back_info
            /\ input_idx' = input_idx
            /\ output_idx' = output_idx
            /\ query'.info = back_info
            /\ (query.by \notin {"none", query'.by} /\ query'.info = query.info) =>
                  (query'.ret <=> ~query.ret)
            /\ (Published = 0) => (query'.ret <=> (query'.by = "input"))]_vars

C21_Witness ==
    /\ query.by = "output"
    /\ query.ret
    /\ query.info = back_info
    /\ Published = 2
    /\ Len(upds) = 1

\* C22 as the specification states it: after every publish that follows a
\* consumer exchange, the producer's new input slot is the slot the consumer
\* relinquished in its last exchange.
C22_ReclaimsAbandoned ==
    \A k \in 1..Len(pubs) :
        (pubs[k].nupds >= 1) =>
            pubs[k].reclaimed = upds[pubs[k].nupds].abandoned

\* C22, amended: after a publish with a consumer exchange since the publish
\* before it, the new input slot is the slot the consumer relinquished in its
\* last exchange, with the contents the consumer left in it; after a publish
\* with no such exchange it is the previous back slot, which holds the value
\* of the publish before (the initial value after a first publish). In every
\* case the new input slot is another slot than the one just published and
\* does not hold the value just published.
C22_ReclaimedSlot ==
    \A k \in 1..Len(pubs) :
        /\ pubs[k].exch =>
              /\ pubs[k].nupds >= 1
              /\ pubs[k].reclaimed = upds[pubs[k].nupds].abandoned
              /\ pubs[k].content = upds[pubs[k].nupds].left
        /\ (~pubs[k].exch /\ k > 1) =>
              /\ pubs[k].reclaimed = pubs[k - 1].slot
              /\ pubs[k].content = RaceCell(k - 1)
        /\ (~pubs[k].exch /\ k = 1) =>
              /\ pubs[k].reclaimed = 0
              /\ pubs[k].content = RaceCell(InitialValue)
        /\ pubs[k].reclaimed # pubs[k].slot
        /\ pubs[k].content # RaceCell(k)

C22_Witness ==
    /\ Len(pubs) = 3
    /\ pubs[2].exch
    /\ pubs[2].reclaimed = upds[1].abandoned
    /\ ~pubs[3].exch
    /\ pubs[3].nupds = 1
    /\ pubs[3].reclaimed # upds[1].abandoned
    /\ pubs[3].content = RaceCell(2)

\* C23: when a whole read() call runs between every two consecutive writes of
\* 1, 2, ..., N, each value a read returns is the value the read before it
\* returned or that value plus one.
C23_NoSkip ==
    gapless => (new_value[1] = prev_value \/ new_value[1] = prev_value + 1)

C23_Witness ==
    /\ gapless
    /\ ReadReturned
    /\ Published = 3
    /\ value = 3
    /\ prev_value = 2
    /\ last_value = 3
    /\ new_value = RaceCell(3)

\* The value of the last completed publish, or the initial value.
LatestValue == IF Published = 0 THEN InitialValue ELSE Published

\* C25: in every reachable state (an exchange and the assignment of the
\* private index being one step) the value of the last completed publish, or
\* the initial value, is in the back slot when the dirty bit is set and in
\* the consumer's output slot when it is clear.
C25_LatestValueLocation ==
    /\ Dirty(back_info) => buffers[BackIdx] = RaceCell(LatestValue)
    /\ ~Dirty(back_info) => buffers[output_idx] = RaceCell(LatestValue)

C25_Witness ==
    /\ Dirty(back_info)
    /\ Published = 2
    /\ ppc = "store1"
    /\ cpc = "rd1"
    /\ buffers[BackIdx] = RaceCell(2)
    /\ buffers[output_idx] = RaceCell(1)

\* C26: every exchange update performs replaces a descriptor whose dirty bit
\* is set, also when a publish ran between update's load of the bit and its
\* exchange; the slot the consumer obtains holds the value of the last
\* completed publish, which no earlier exchange obtained.
C26_ExchangeOnlyDirty ==
    \A j \in 1..Len(upds) :
        /\ upds[j].dirty
        /\ upds[j].published >= 1
        /\ upds[j].got = RaceCell(upds[j].published)
        /\ (j > 1) => upds[j].published > upds[j - 1].published

C26_Witness ==
    /\ Len(upds) = 2
    /\ upds[2].raced
    /\ upds[2].published = 3
    /\ upds[1].published = 1

\* C27: the number of completed publishes is the number of updates that
\* returned true, plus the number of publishes that returned true, plus one
\* when the dirty bit is set; the updates that returned true never outnumber
\* the publishes.
C27_Counting ==
    /\ Published = Cardinality({j \in 1..Len(upds) : upds[j].ret})
                     + Cardinality({k \in 1..Len(pubs) : pubs[k].ret})
                     + (IF Dirty(back_info) THEN 1 ELSE 0)
    /\ Cardinality({j \in 1..Len(upds) : upds[j].ret}) <= Published
    /\ \A j \in 1..Len(upds) : upds[j].ret

C27_Witness ==
    /\ Published = 3
    /\ Len(upds) = 1
    /\ Cardinality({k \in 1..Len(pubs) : pubs[k].ret}) = 1
    /\ Dirty(back_info)
    /\ ppc = "idle"
    /\ cpc = "idle"

\* The publishes whose value an exchange of the consumer obtained.
Taken == {upds[j].published : j \in 1..Len(upds)}

\* C28: when a publish other than the first returns false, an exchange of the
\* consumer before it obtained the slot holding the value of the publish
\* before it; a published value no exchange obtained before the next publish
\* is followed by a publish that returns true.
C28_FalseMeansTaken ==
    /\ \A k \in 2..Len(pubs) :
          ~pubs[k].ret =>
              \E j \in 1..pubs[k].nupds :
                  /\ upds[j].published = k - 1
                  /\ upds[j].taken = pubs[k - 1].slot
                  /\ upds[j].got = RaceCell(k - 1)
    /\ \A k \in 1..(Len(pubs) - 1) :
          (k \notin Taken) => pubs[k + 1].ret

C28_Witness ==
    /\ Len(pubs) = 3
    /\ ~pubs[2].ret
    /\ pubs[3].ret
    /\ Taken = {1, 3}

\* C29: the descriptor word is one of 0, 1, 2, 4, 5, 6 (index bits never 3,
\* no bit above the dirty bit), input_idx and output_idx are in 0..2, the
\* index bits of every word written into the descriptor are the index that
\* was written, and every slot access is within the three slots.
C29_DescriptorRange ==
    /\ back_info \in {0, 1, 2, 4, 5, 6}
    /\ BitAnd(back_info, BACK_INDEX_MASK) # 3
    /\ back_info < 2 * BACK_DIRTY_BIT
    /\ input_idx \in BufferIndexes
    /\ output_idx \in BufferIndexes
    /\ BitAnd(PublishBackInfo(input_idx), BACK_INDEX_MASK) = input_idx
    /\ BitAnd(UpdateBackInfo(output_idx), BACK_INDEX_MASK) = output_idx
    /\ \A k \in 1..Len(pubs) :
          BitAnd(BitOr(pubs[k].slot, BACK_DIRTY_BIT), BACK_INDEX_MASK) = pubs[k].slot
    /\ input_ptr \in BufferIndexes
    /\ output_ptr \in BufferIndexes

C29_Witness ==
    /\ back_info = 6
    /\ Len(upds) = 1
    /\ Published = 3

----------------------------------------------------------------------------
\* Properties of the memory orderings

\* C24: with publish exchanging with Release and update with Acquire in a
\* build without the raw feature, and both with AcqRel in a raw build: after
\* an update that exchanged, every store the producer made to the slot pulled before
\* the matching publish happens before the consumer's next step, and the read
\* delivers the whole value published. In a raw build, when the producer gets
\* a slot back from the consumer, every store the consumer made to it happens
\* before the producer's next step, and the producer loads from it what the
\* consumer left.
C24_OrderingVisibility ==
    /\ ct.has_pulled =>
          /\ ct.output_idx = ct.pulled.slot
          /\ \A w \in Words : ct.view[ct.pulled.slot][w] >= ct.pulled.stores[w]
    /\ (ct.fresh /\ ct.pc \in {"idle", "edit1"}) =>
          ct.got = RaceCell(ct.pulled.val)
    /\ (raw /\ pt.from = "output") =>
          /\ pt.input_idx = pt.reclaimed.slot
          /\ \A w \in Words :
                pt.view[pt.reclaimed.slot][w] >= pt.reclaimed.stores[w]
    /\ (raw /\ pt.from = "output" /\ pt.pc \in {"store0", "store1", "publish"}) =>
          pt.peeked = pt.reclaimed.val

C24_Witness ==
    /\ raw
    /\ pt.from = "output"
    /\ pt.pc = "store0"
    /\ pt.peeked = Edited(InitialValue)
    /\ ct.fresh
    /\ ct.pc = "idle"
    /\ ct.got = RaceCell(2)

====
